---- MODULE Spec2Model ----
(***************************************************************************)
(* The chat server of src/app/chat/page.tsx (lines 293-385): a Socket.IO   *)
(* server whose connection handler registers three listeners on every      *)
(* socket ("user_joined", "message", "disconnect"), each of which          *)
(* broadcasts a "message" event with io.emit.                              *)
(*                                                                         *)
(* A channel is one server-side socket.  The registry is the namespace's   *)
(* socket map that io.emit iterates; Socket.IO enters a socket in it       *)
(* before the "connection" listener runs and removes it before the         *)
(* "disconnect" listener runs.  Inbound events are handled one at a time   *)
(* (Node's event loop), so every handler is one atomic action.             *)
(*                                                                         *)
(* The client is the ChatPage component of the same file (lines 29-291)    *)
(* with the socket of src/app/socket.ts, one per browser page: the         *)
(* component's state, the listeners it registers, and what it emits.       *)
(***************************************************************************)
EXTENDS Integers, Sequences, FiniteSets, TLC

\* ---------------------------------------------------------------- bounds
MaxChannels == 3      \* channels that connect in one run
MaxEvents == 5        \* inbound events handled in one run
MaxMounts == 2        \* times the ChatPage component mounts in one run

\* ------------------------------------------------------------ value sets
Channels == 1..MaxChannels

\* The value of a property that was never assigned (socket.username before
\* any "user_joined").
Undefined == "undefined"

\* Arguments a client can give "user_joined": any string, the empty one too.
Usernames == {"alice", "bob", ""}

\* Fields a client can put in the payload of "message".
Texts == {"hi"}
MessageUsernames == {"alice", "bob"}
MessageTypes == {"user", "system"}
Messages == [text : Texts, username : MessageUsernames, type : MessageTypes]

\* JavaScript truthiness of a string-or-undefined value: `if (socket.username)`.
Truthy(v) == v # Undefined /\ v # ""

VARIABLES
    sockets,     \* the registry io.emit iterates: channel ids, insertion order
    username,    \* socket.username of every channel
    life,        \* "unborn" | "open" | "closed": the connection's life cycle
    broken,      \* registered channels whose transport no longer accepts writes
    history      \* the inbound events handled so far, each with its io.emit

\* The client: the ChatPage component and the socket of src/app/socket.ts.
VARIABLES
    mounted,         \* the component is mounted
    instance,        \* how many times it has mounted: the current instance
    isConnected,     \* useState(false)
    transport,       \* useState("N/A")
    messages,        \* useState([])
    clientUsername,  \* useState(""): the component's `username`
    isUsernameSet,   \* useState(false)
    connected,       \* socket.connected
    connections,     \* the server's channels of this socket, the last one current
    engineTransport, \* socket.io.engine.transport.name
    listeners,       \* per event, the instances whose listener is registered
    sendBuffer,      \* packets emitted while the socket was not connected
    emitted,         \* what the current instance has emitted, in order
    received         \* the "message" events its listener has been given, in order

svars == <<sockets, username, life, broken, history>>
cvars == <<mounted, instance, isConnected, transport, messages, clientUsername,
           isUsernameSet, connected, connections, engineTransport, listeners,
           sendBuffer, emitted, received>>
vars == <<svars, cvars>>

\* --------------------------------------------------------------- helpers
Range(s) == {s[i] : i \in 1..Len(s)}

RECURSIVE Without(_, _)
\* s with every occurrence of c removed (Map.delete on the socket map).
Without(s, c) ==
    IF s = <<>> THEN <<>>
    ELSE IF Head(s) = c THEN Without(Tail(s), c)
    ELSE <<Head(s)>> \o Without(Tail(s), c)

Open == {c \in Channels : life[c] = "open"}

\* The channel a new connection gets: ids are never reused.
NextId == Cardinality({c \in Channels : life[c] # "unborn"}) + 1

RECURSIVE DeliverAbort(_, _)
\* A loop that a failed write ends: the sockets after it are not visited.
DeliverAbort(reg, bad) ==
    IF reg = <<>> THEN <<>>
    ELSE IF Head(reg) \in bad THEN <<[ch |-> Head(reg), ok |-> FALSE]>>
    ELSE <<[ch |-> Head(reg), ok |-> TRUE]>> \o DeliverAbort(Tail(reg), bad)

RECURSIVE Deliver(_, _)
\* io.emit's loop over the registry: the packet is written to every socket in
\* turn; a write to a transport that is not open is dropped and the loop
\* goes on.  The result is one record per socket visited.
Deliver(reg, bad) ==
    IF reg = <<>> THEN <<>>
    ELSE <<[ch |-> Head(reg), ok |-> Head(reg) \notin bad]>>
         \o Deliver(Tail(reg), bad)

\* socket.broadcast.emit in the place of io.emit: every socket but the sender.
IoEmitOthers(by, msg, reg, bad, live) ==
    [msg |-> msg, sent |-> Deliver(Without(reg, by), bad), live |-> live]

\* io.emit("message", msg) by a handler of channel `by`, with the registry
\* `reg`.  `live` records the channels open at that instant, taken from the
\* connections' life cycle and not from the registry.
IoEmit(by, msg, reg, bad, live) ==
    [msg |-> msg, sent |-> Deliver(reg, bad), live |-> live]

\* One handled inbound event: the channel, the event, its argument and the
\* broadcasts the handler made (none or one).
Handled(c, ev, arg, out) == [ch |-> c, ev |-> ev, arg |-> arg, out |-> out]

\* The events the component puts listeners on: three of the socket (lines
\* 98-100) and one of its transport engine (line 63).
SocketEvents == {"connect", "disconnect", "message", "upgrade"}

\* ----------------------------------------------------------------- state
Init ==
    /\ sockets = <<>>
    /\ username = [c \in Channels |-> Undefined]
    /\ life = [c \in Channels |-> "unborn"]
    /\ broken = {}
    /\ history = <<>>
    /\ mounted = FALSE
    /\ instance = 0
    /\ isConnected = FALSE
    /\ transport = "N/A"
    /\ messages = <<>>
    /\ clientUsername = ""
    /\ isUsernameSet = FALSE
    /\ connected = FALSE
    /\ connections = <<>>
    /\ engineTransport = "N/A"
    /\ listeners = [ev \in SocketEvents |-> <<>>]
    /\ sendBuffer = <<>>
    /\ emitted = <<>>
    /\ received = <<>>

\* io.on("connection", socket => ...): a new socket is registered, with no
\* username, and its three listeners are installed.
OnConnection ==
    /\ Len(history) < MaxEvents
    /\ NextId \in Channels
    /\ sockets' = Append(sockets, NextId)
    /\ life' = [life EXCEPT ![NextId] = "open"]
    /\ history' = Append(history, Handled(NextId, "connection", Undefined, <<>>))
    /\ UNCHANGED <<username, broken>>

\* socket.on("user_joined", username => ...)
OnUserJoined(c, name) ==
    /\ Len(history) < MaxEvents
    /\ life[c] = "open"
    /\ username' = [username EXCEPT ![c] = name]
    /\ history' = Append(history, Handled(c, "user_joined", name,
           <<IoEmit(c, [text |-> "has joined the chat", username |-> name, type |-> "system"],
                    sockets, broken, Open)>>))
    /\ UNCHANGED <<sockets, life, broken>>

\* A handler that broadcasts the payload as it came: io.emit("message", message).
OnMessageVerbatim(c, message) ==
    /\ Len(history) < MaxEvents
    /\ life[c] = "open"
    /\ history' = Append(history, Handled(c, "message", message,
           <<IoEmit(c, message, sockets, broken, Open)>>))
    /\ UNCHANGED <<sockets, username, life, broken>>

\* socket.on("message", message => ...)
OnMessage(c, message) ==
    /\ Len(history) < MaxEvents
    /\ life[c] = "open"
    /\ history' = Append(history, Handled(c, "message", message,
           <<IoEmit(c, [text |-> message.text, username |-> message.username, type |-> "user"],
                    sockets, broken, Open)>>))
    /\ UNCHANGED <<sockets, username, life, broken>>

\* The listener put on "disconnecting" in the place of "disconnect": it runs
\* while the socket is still registered.
OnDisconnecting(c) ==
    /\ Len(history) < MaxEvents
    /\ life[c] = "open"
    /\ sockets' = Without(sockets, c)
    /\ life' = [life EXCEPT ![c] = "closed"]
    /\ broken' = broken \ {c}
    /\ history' = Append(history, Handled(c, "disconnect", Undefined,
           IF Truthy(username[c])
           THEN <<IoEmit(c, [text |-> "has left the chat", username |-> username[c], type |-> "system"],
                         sockets, broken, Open \ {c})>>
           ELSE <<>>))
    /\ UNCHANGED username

\* A disconnect listener without its `if (socket.username)`.
OnDisconnectUnguarded(c) ==
    /\ Len(history) < MaxEvents
    /\ life[c] = "open"
    /\ sockets' = Without(sockets, c)
    /\ life' = [life EXCEPT ![c] = "closed"]
    /\ broken' = broken \ {c}
    /\ history' = Append(history, Handled(c, "disconnect", Undefined,
           <<IoEmit(c, [text |-> "has left the chat", username |-> username[c], type |-> "system"],
                    sockets', broken', Open \ {c})>>))
    /\ UNCHANGED username

\* A disconnect that leaves the socket in the registry.
OnDisconnectLeak(c) ==
    /\ Len(history) < MaxEvents
    /\ life[c] = "open"
    /\ sockets' = sockets
    /\ life' = [life EXCEPT ![c] = "closed"]
    /\ broken' = broken \ {c}
    /\ history' = Append(history, Handled(c, "disconnect", Undefined,
           IF Truthy(username[c])
           THEN <<IoEmit(c, [text |-> "has left the chat", username |-> username[c], type |-> "system"],
                         Without(sockets, c), broken', Open \ {c})>>
           ELSE <<>>))
    /\ UNCHANGED username

\* A disconnect listener that runs at every close of the socket, a closed
\* socket's too.
OnDisconnectAgain(c) ==
    /\ Len(history) < MaxEvents
    /\ life[c] # "unborn"
    /\ sockets' = Without(sockets, c)
    /\ life' = [life EXCEPT ![c] = "closed"]
    /\ broken' = broken \ {c}
    /\ history' = Append(history, Handled(c, "disconnect", Undefined,
           IF Truthy(username[c])
           THEN <<IoEmit(c, [text |-> "has left the chat", username |-> username[c], type |-> "system"],
                         sockets', broken', Open \ {c})>>
           ELSE <<>>))
    /\ UNCHANGED username

\* socket.on("disconnect", () => ...): Socket.IO has removed the socket from
\* the registry when the listener runs.
OnDisconnect(c) ==
    /\ Len(history) < MaxEvents
    /\ life[c] = "open"
    /\ sockets' = Without(sockets, c)
    /\ life' = [life EXCEPT ![c] = "closed"]
    /\ broken' = broken \ {c}
    /\ history' = Append(history, Handled(c, "disconnect", Undefined,
           IF Truthy(username[c])
           THEN <<IoEmit(c, [text |-> "has left the chat", username |-> username[c], type |-> "system"],
                         sockets', broken', Open \ {c})>>
           ELSE <<>>))
    /\ UNCHANGED username

\* The transport of a registered channel stops accepting writes (a transport
\* error, a connection that is closing); the channel stays registered until
\* its disconnect is handled.
TransportFails(c) ==
    /\ Len(history) < MaxEvents
    /\ life[c] = "open"
    /\ c \notin broken
    /\ broken' = broken \cup {c}
    /\ history' = Append(history, Handled(c, "transport error", Undefined, <<>>))
    /\ UNCHANGED <<sockets, username, life>>

\* What can still arrive for a socket that has closed: a second close of its
\* transport, or a packet of the client that was under way.
LateEvents == {"close", "user_joined", "message"}

\* An event for a closed socket: the listeners were registered on the socket
\* (lines 339, 352, 363) and Socket.IO runs none of them for a socket that
\* is no longer connected, so nothing is assigned and nothing is broadcast.
IgnoredAfterClose(c, ev) ==
    /\ Len(history) < MaxEvents
    /\ life[c] = "closed"
    /\ history' = Append(history, Handled(c, "ignored", ev, <<>>))
    /\ UNCHANGED <<sockets, username, life, broken>>

\* The server alone, with clients that send any well-formed event.
Next ==
    \/ OnConnection /\ UNCHANGED cvars
    \/ \E c \in Channels, name \in Usernames : OnUserJoined(c, name) /\ UNCHANGED cvars
    \/ \E c \in Channels, message \in Messages : OnMessage(c, message) /\ UNCHANGED cvars
    \/ \E c \in Channels : OnDisconnect(c) /\ UNCHANGED cvars
    \/ \E c \in Channels : TransportFails(c) /\ UNCHANGED cvars
    \/ \E c \in Channels, ev \in LateEvents : IgnoredAfterClose(c, ev) /\ UNCHANGED cvars

Spec == Init /\ [][Next]_vars

\* ------------------------------------------------------ malformed events
\* Payloads of "message" with text or username missing.
MalformedMessages ==
    {m \in [text : Texts \cup {Undefined},
            username : MessageUsernames \cup {Undefined},
            type : {"user"}] : m.text = Undefined \/ m.username = Undefined}

\* An uncaught exception has ended the server process.
ServerDown == \E i \in 1..Len(history) : history[i].ev = "uncaughtException"

\* socket.on("message", message => ...) for a "message" event that carries
\* no payload: `message.text` (line 356) throws a TypeError before io.emit,
\* and the handler has no try/catch.  What becomes of the exception is the
\* runtime's: it ends the process, and with it every connection, or a
\* process-wide handler swallows it and only this event is lost.
OnMessageThrows(c, fatal) ==
    /\ Len(history) < MaxEvents
    /\ life[c] = "open"
    /\ IF fatal
       THEN /\ sockets' = <<>>
            /\ life' = [d \in Channels |-> IF life[d] = "open" THEN "closed" ELSE life[d]]
            /\ broken' = {}
            /\ history' = Append(history, Handled(c, "uncaughtException", "message", <<>>))
       ELSE /\ history' = Append(history, Handled(c, "exception", "message", <<>>))
            /\ UNCHANGED <<sockets, life, broken>>
    /\ UNCHANGED username

\* The server with clients that also send malformed events.
NextMalformed ==
    \/ ~ServerDown /\ Next
    \/ ~ServerDown /\ UNCHANGED cvars /\ \E c \in Channels : OnUserJoined(c, Undefined)
    \/ ~ServerDown /\ UNCHANGED cvars
       /\ \E c \in Channels, message \in MalformedMessages : OnMessage(c, message)
    \/ ~ServerDown /\ UNCHANGED cvars
       /\ \E c \in Channels, fatal \in BOOLEAN : OnMessageThrows(c, fatal)

SpecMalformed == Init /\ [][NextMalformed]_vars

\* ================================================================ client
\* What the user can type in the username field and in the message field.
RawUsernames == {"alice", " alice", " "}
RawTexts == {"hi", " "}

RECURSIVE TrimStart(_)
TrimStart(str) ==
    IF Len(str) = 0 THEN str
    ELSE IF SubSeq(str, 1, 1) = " " THEN TrimStart(SubSeq(str, 2, Len(str)))
    ELSE str

RECURSIVE TrimEnd(_)
TrimEnd(str) ==
    IF Len(str) = 0 THEN str
    ELSE IF SubSeq(str, Len(str), Len(str)) = " " THEN TrimEnd(SubSeq(str, 1, Len(str) - 1))
    ELSE str

\* String.prototype.trim, for strings whose only white space is the blank.
Trim(str) == TrimEnd(TrimStart(str))

\* The component's state right after useState: lines 31-44.
InitialState ==
    /\ isConnected' = FALSE
    /\ transport' = "N/A"
    /\ messages' = <<>>
    /\ clientUsername' = ""
    /\ isUsernameSet' = FALSE

\* The server's channel of the socket's current connection.
channel == IF connections = <<>> THEN 0 ELSE connections[Len(connections)]

\* The current instance has a listener on ev.
Listening(ev) == mounted /\ \E k \in 1..Len(listeners[ev]) : listeners[ev][k] = instance

\* An onMessage that puts the new entry first: [newMessage, ...prev].
onMessageFirst(prev, message) ==
    <<[text |-> message.text, username |-> message.username, type |-> "user"]>> \o prev

\* onMessage (lines 81-90): the entry appended for a received event.  The
\* random id and the time stamp are left out.
onMessage(prev, message) ==
    Append(prev, [text |-> message.text, username |-> message.username, type |-> "user"])

\* The last broadcast of the server reaches this client: its channel is among
\* the sockets written to, and the write succeeded.
Reaches(h) ==
    /\ h.out # <<>>
    /\ connected
    /\ \E k \in 1..Len(h.out[1].sent) : h.out[1].sent[k].ch = channel /\ h.out[1].sent[k].ok

\* After a step of the server: the socket gives the broadcast, if it reaches
\* this client, to the "message" listener of the component.
ClientReceives ==
    LET h == history'[Len(history')] IN
        IF Reaches(h) /\ Listening("message")
        THEN /\ messages' = onMessage(messages, h.out[1].msg)
             /\ received' = Append(received, h.out[1].msg)
        ELSE UNCHANGED <<messages, received>>

\* useEffect (lines 48-108) at mount: onConnect at once if the socket is
\* connected, then the three listeners.
Mount ==
    /\ ~mounted
    /\ instance < MaxMounts
    /\ mounted' = TRUE
    /\ instance' = instance + 1
    /\ messages' = <<>>
    /\ clientUsername' = ""
    /\ isUsernameSet' = FALSE
    /\ isConnected' = connected
    /\ transport' = IF connected THEN engineTransport ELSE "N/A"
    /\ listeners' = [ev \in SocketEvents |->
           IF ev = "upgrade" /\ ~connected THEN listeners[ev]
           ELSE Append(listeners[ev], instance + 1)]
    /\ emitted' = <<>>
    /\ received' = <<>>
    /\ UNCHANGED <<svars, connected, connections, engineTransport, sendBuffer>>

\* The cleanup of useEffect (lines 103-107): socket.off for the three
\* listeners of the socket.
Unmount ==
    /\ mounted
    /\ mounted' = FALSE
    /\ listeners' = [ev \in SocketEvents |->
           IF ev = "upgrade" THEN listeners[ev]
           ELSE SelectSeq(listeners[ev], LAMBDA i : i # instance)]
    /\ InitialState
    /\ UNCHANGED <<svars, instance, connected, connections, engineTransport, sendBuffer,
                   emitted, received>>

\* The socket connects (at page load, or again after a disconnect): a new
\* engine, a new channel on the server, then the "connect" event: onConnect
\* (lines 53-66).  The engine may have upgraded before the event.
SocketConnects(name) ==
    /\ ~connected
    /\ OnConnection
    /\ connected' = TRUE
    /\ connections' = Append(connections, NextId)
    /\ engineTransport' = name
    /\ IF Listening("connect")
       THEN /\ isConnected' = TRUE
            /\ transport' = name
            /\ listeners' = [listeners EXCEPT !["upgrade"] = <<instance>>]
       ELSE /\ listeners' = [listeners EXCEPT !["upgrade"] = <<>>]
            /\ UNCHANGED <<isConnected, transport>>
    /\ UNCHANGED <<mounted, instance, messages, clientUsername, isUsernameSet,
                   sendBuffer, emitted, received>>

\* The engine's "upgrade" event: every listener registered on the engine
\* runs setTransport of its instance (lines 63-65); for an instance that has
\* unmounted that sets nothing.
EngineUpgrades ==
    /\ connected
    /\ engineTransport = "polling"
    /\ engineTransport' = "websocket"
    /\ transport' = IF Listening("upgrade") THEN "websocket" ELSE transport
    /\ UNCHANGED <<svars, mounted, instance, isConnected, messages, clientUsername,
                   isUsernameSet, connected, connections, listeners, sendBuffer,
                   emitted, received>>

\* An onDisconnect that leaves the transport name as it was.
SocketDisconnectsKeepsTransport ==
    /\ connected
    /\ OnDisconnect(channel)
    /\ connected' = FALSE
    /\ sendBuffer' = <<>>
    /\ IF Listening("disconnect")
       THEN isConnected' = FALSE /\ transport' = transport
       ELSE UNCHANGED <<isConnected, transport>>
    /\ UNCHANGED <<mounted, instance, messages, clientUsername, isUsernameSet,
                   connections, engineTransport, listeners, emitted, received>>

\* The connection closes: the server handles the disconnect of the channel,
\* the socket's "disconnect" event runs onDisconnect (lines 72-75), and what
\* was under way to the server is lost.
SocketDisconnects ==
    /\ connected
    /\ OnDisconnect(channel)
    /\ connected' = FALSE
    /\ sendBuffer' = <<>>
    /\ IF Listening("disconnect")
       THEN isConnected' = FALSE /\ transport' = "N/A"
       ELSE UNCHANGED <<isConnected, transport>>
    /\ UNCHANGED <<mounted, instance, messages, clientUsername, isUsernameSet,
                   connections, engineTransport, listeners, emitted, received>>

\* socket.emit(ev, arg): to the server's handler if the socket is connected,
\* to the send buffer if it is not.
SocketEmit(ev, arg) ==
    /\ emitted' = Append(emitted, [ev |-> ev, arg |-> arg])
    /\ IF connected
       THEN /\ sendBuffer = <<>>
            /\ IF ev = "user_joined" THEN OnUserJoined(channel, arg)
               ELSE OnMessage(channel, arg)
            /\ ClientReceives
            /\ UNCHANGED sendBuffer
       ELSE /\ sendBuffer' = Append(sendBuffer, [ev |-> ev, arg |-> arg])
            /\ UNCHANGED <<svars, messages, received>>

\* The user types raw in the username field (line 161) and submits the
\* form: handleUsernameSubmit (lines 130-137).
HandleUsernameSubmit(raw) ==
    /\ mounted
    /\ ~isUsernameSet
    /\ clientUsername' = raw
    /\ IF Trim(raw) # ""
       THEN /\ isUsernameSet' = TRUE
            /\ SocketEmit("user_joined", Trim(raw))
       ELSE UNCHANGED <<svars, isUsernameSet, sendBuffer, emitted, messages, received>>
    /\ UNCHANGED <<mounted, instance, isConnected, transport, connected, connections,
                   engineTransport, listeners>>

\* The user types raw in the message field and submits the form:
\* sendMessage (lines 114-124).  The form is shown once the username is set
\* (line 150) and its field and button are disabled while isConnected is
\* false (lines 272, 276).
SendMessage(raw) ==
    /\ mounted
    /\ isUsernameSet
    /\ isConnected
    /\ Trim(raw) # ""
    /\ SocketEmit("message", [text |-> raw, username |-> clientUsername, type |-> "user"])
    /\ UNCHANGED <<mounted, instance, isConnected, transport, clientUsername,
                   isUsernameSet, connected, connections, engineTransport, listeners>>

\* After a connect the socket sends what it had buffered, in order, before
\* anything emitted later.
FlushBuffer ==
    /\ connected
    /\ sendBuffer # <<>>
    /\ IF Head(sendBuffer).ev = "user_joined"
       THEN OnUserJoined(channel, Head(sendBuffer).arg)
       ELSE OnMessage(channel, Head(sendBuffer).arg)
    /\ ClientReceives
    /\ sendBuffer' = Tail(sendBuffer)
    /\ UNCHANGED <<mounted, instance, isConnected, transport, clientUsername,
                   isUsernameSet, connected, connections, engineTransport, listeners,
                   emitted>>

\* The channels of other clients.
Peers == {c \in Open : ~(connected /\ c = channel)}

\* What another client does, as far as this client can see it.
PeerConnects ==
    /\ OnConnection
    /\ UNCHANGED cvars

PeerSends(c, message) ==
    /\ c \in Peers
    /\ OnMessage(c, message)
    /\ ClientReceives
    /\ UNCHANGED <<mounted, instance, isConnected, transport, clientUsername,
                   isUsernameSet, connected, connections, engineTransport, listeners,
                   sendBuffer, emitted>>

\* One browser page with the server, and other clients that connect and send
\* chat events.
NextClient ==
    \/ Mount
    \/ Unmount
    \/ \E name \in {"polling", "websocket"} : SocketConnects(name)
    \/ EngineUpgrades
    \/ SocketDisconnects
    \/ \E raw \in RawUsernames : HandleUsernameSubmit(raw)
    \/ \E raw \in RawTexts : SendMessage(raw)
    \/ FlushBuffer
    \/ PeerConnects
    \/ \E c \in Channels : PeerSends(c, [text |-> "hi", username |-> "bob", type |-> "user"])

SpecClient == Init /\ [][NextClient]_vars

\* ================================================================ claims
\* How often the broadcast e was sent to channel c.
Times(e, c) == Cardinality({i \in 1..Len(e.sent) : e.sent[i].ch = c})

\* The channels the broadcast e was sent to.
Targets(e) == {e.sent[i].ch : i \in 1..Len(e.sent)}

\* The handled events of one kind.
EventsOf(ev) == {i \in 1..Len(history) : history[i].ev = ev}

\* Every broadcast made so far.
Emits == {history[i].out[1] : i \in {j \in 1..Len(history) : history[j].out # <<>>}}

\* C1: a chat event sent by a connected channel while the set S of channels
\* is connected is sent exactly once to every channel of S, the sender
\* included, and to no other channel.
C1_ChatSentOnceToEveryone ==
    \A i \in EventsOf("message") :
        /\ Len(history[i].out) = 1
        /\ LET e == history[i].out[1] IN
               /\ history[i].ch \in e.live
               /\ \A c \in Channels : Times(e, c) = IF c \in e.live THEN 1 ELSE 0

\* A chat event was broadcast while the sender and two more channels were
\* connected.
C1_Witness ==
    \E i \in EventsOf("message") :
        /\ Cardinality(history[i].out[1].live) >= 3
        /\ Times(history[i].out[1], history[i].ch) = 1

\* C2: the registry holds exactly the open channels, every broadcast went
\* only to channels open at its instant, and a closing channel was not sent
\* its own "has left the chat".
C2_TargetsAreOpenChannels ==
    /\ Range(sockets) = Open
    /\ \A e \in Emits : Targets(e) = e.live
    /\ \A i \in EventsOf("disconnect") :
           \A k \in 1..Len(history[i].out) :
               history[i].ch \notin Targets(history[i].out[k])

\* A channel with a username closed while another channel was open, and its
\* "has left the chat" was broadcast.
C2_Witness ==
    \E i \in EventsOf("disconnect") :
        /\ history[i].out # <<>>
        /\ Targets(history[i].out[1]) # {}
        /\ life[history[i].ch] = "closed"

EventsBy(c, ev) == {i \in EventsOf(ev) : history[i].ch = c}

\* The handled events of channel c that broadcast a system event, in order.
SystemBy(c) ==
    SelectSeq(history, LAMBDA h : h.ch = c /\ h.out # <<>> /\ h.out[1].msg.type = "system")

Joined(name) == [text |-> "has joined the chat", username |-> name, type |-> "system"]
Left(name) == [text |-> "has left the chat", username |-> name, type |-> "system"]

\* C4: a channel that sent join with label L and has disconnected caused
\* exactly two system events, "has joined the chat" with L and then "has left
\* the chat" with L, each sent to all other channels open at its instant.
C4_JoinedThenLeft ==
    \A c \in Channels :
        \A j \in EventsBy(c, "user_joined") :
            life[c] = "closed" =>
                LET S == SystemBy(c) IN
                    /\ Len(S) = 2
                    /\ S[1].ev = "user_joined" /\ S[1].out[1].msg = Joined(history[j].arg)
                    /\ S[2].ev = "disconnect" /\ S[2].out[1].msg = Left(history[j].arg)
                    /\ \A k \in 1..2 : S[k].out[1].live \ {c} \subseteq Targets(S[k].out[1])

\* C5: a channel that never sent a join event caused no system event, neither
\* while open nor on its disconnect, whatever chat events it sent.
C5_NoJoinNoSystemEvent ==
    \A c \in Channels :
        EventsBy(c, "user_joined") = {} =>
            /\ SystemBy(c) = <<>>
            /\ \A i \in EventsBy(c, "disconnect") : history[i].out = <<>>

\* A channel sent a chat event and disconnected, with another channel open,
\* without ever having sent a join event.
C5_Witness ==
    \E c \in Channels :
        /\ EventsBy(c, "user_joined") = {}
        /\ EventsBy(c, "message") # {}
        /\ EventsBy(c, "disconnect") # {}
        /\ Open # {}

\* C6: when a channel whose label has been set by a join event closes, "has
\* left the chat" with kind "system" and that label is broadcast to every
\* channel still open.
C6_LeftBroadcastForLabelled ==
    \A i \in EventsOf("disconnect") :
        LET c == history[i].ch IN
            EventsBy(c, "user_joined") # {} =>
                /\ Len(history[i].out) = 1
                /\ history[i].out[1].msg = Left(username[c])
                /\ Targets(history[i].out[1]) = history[i].out[1].live

\* The first join event of channel c.
FirstJoin(c) == CHOOSE j \in EventsBy(c, "user_joined") :
                    \A k \in EventsBy(c, "user_joined") : j <= k

\* C7: the label of a channel is set at most once: it is the label of the
\* channel's first join event, whatever join events follow.
C7_LabelSetOnce ==
    \A c \in Channels :
        EventsBy(c, "user_joined") # {} => username[c] = history[FirstJoin(c)].arg

\* C8: "has joined the chat" is broadcast only for the first join event of a
\* channel: a later join event of the same channel broadcasts nothing.
C8_JoinedBroadcastOnce ==
    \A c \in Channels :
        \A j \in EventsBy(c, "user_joined") :
            j # FirstJoin(c) => history[j].out = <<>>

\* C9: a chat event is broadcast with the text and the username of its
\* payload and with type "user", whatever type the payload had; a system
\* event is broadcast only by the user_joined and the disconnect handlers.
C9_ChatForwardedAsUser ==
    /\ \A i \in EventsOf("message") :
           /\ Len(history[i].out) = 1
           /\ history[i].out[1].msg =
                  [text |-> history[i].arg.text,
                   username |-> history[i].arg.username,
                   type |-> "user"]
    /\ \A i \in 1..Len(history) :
           (history[i].out # <<>> /\ history[i].out[1].msg.type = "system")
               => history[i].ev \in {"user_joined", "disconnect"}

\* A channel whose username is alice sent a chat event with username bob and
\* type "system".
C9_Witness ==
    \E i \in EventsOf("message") :
        /\ history[i].arg.type = "system"
        /\ Truthy(username[history[i].ch])
        /\ history[i].arg.username # username[history[i].ch]
        /\ Cardinality(Targets(history[i].out[1])) >= 2

Malformed(i) ==
    \/ history[i].ev \in {"uncaughtException", "exception"}
    \/ history[i].ev = "user_joined" /\ history[i].arg = Undefined
    \/ history[i].ev = "message"
       /\ (history[i].arg.text = Undefined \/ history[i].arg.username = Undefined)

\* C12: a malformed inbound event never ends the event handling and never
\* affects other channels: the server stays up, and the broadcast of a
\* malformed event, if there is one, carries no missing field.
C12_MalformedEventsAreHarmless ==
    /\ ~ServerDown
    /\ \A i \in 1..Len(history) :
           (Malformed(i) /\ history[i].out # <<>>) =>
               /\ history[i].out[1].msg.text # Undefined
               /\ history[i].out[1].msg.username # Undefined

\* C13: every entry the component stores for a received event has the type
\* the server sent: "system" for a join or leave notice, "user" for a chat
\* event.
C13_StoredTypeIsSentType ==
    mounted =>
        \A i \in 1..Len(messages) :
            i <= Len(received) => messages[i].type = received[i].type

\* C14: the cleanup removes every listener the component registered: while
\* it is unmounted no listener of it is left on the socket or on its engine,
\* and no event ever has two listeners of the component.
C14_CleanupRemovesEveryListener ==
    /\ ~mounted => \A ev \in SocketEvents : listeners[ev] = <<>>
    /\ \A ev \in SocketEvents : Len(listeners[ev]) <= 1

\* C15: the username of every chat event the component emits is the string
\* it gave user_joined before.
C15_MessageUsernameIsJoinedUsername ==
    \A i \in 1..Len(emitted) :
        \A j \in (i + 1)..Len(emitted) :
            (emitted[i].ev = "user_joined" /\ emitted[j].ev = "message") =>
                emitted[j].arg.username = emitted[i].arg

\* C16: on every connection of this client its join event reaches the server
\* before its chat events: every chat event the server handled on one of the
\* client's channels came after a join event on the same channel.
C16_JoinBeforeChatOnEveryConnection ==
    \A i \in EventsOf("message") :
        history[i].ch \in Range(connections) =>
            \E j \in 1..(i - 1) :
                history[j].ev = "user_joined" /\ history[j].ch = history[i].ch

\* C17: while the component is mounted isConnected is the socket's
\* connected, and whenever isConnected is false the transport shown is "N/A".
C17_StatusFollowsSocket ==
    mounted =>
        /\ isConnected = connected
        /\ ~isConnected => transport = "N/A"

\* The component sent a chat event over an upgraded connection and the
\* connection has closed since.
C17_Witness ==
    /\ mounted
    /\ ~isConnected
    /\ engineTransport = "websocket"
    /\ \E i \in 1..Len(emitted) : emitted[i].ev = "message"

\* s is the beginning of t.
IsPrefix(s, t) == Len(s) <= Len(t) /\ \A i \in 1..Len(s) : s[i] = t[i]

\* C18: the message list is append-only and in arrival order: it has one
\* entry per received event, in the order received, with the event's text and
\* username, and a step of a mounted component leaves the list as it is or
\* adds one entry at its end.
C18_MessagesAppendOnly ==
    /\ [](mounted =>
            /\ Len(messages) = Len(received)
            /\ \A i \in 1..Len(messages) :
                   /\ messages[i].text = received[i].text
                   /\ messages[i].username = received[i].username)
    /\ [][(mounted /\ mounted') =>
            /\ IsPrefix(messages, messages')
            /\ Len(messages') <= Len(messages) + 1]_vars

\* The component holds its own join notice and, after it, a chat event of
\* another client.
C18_Witness ==
    /\ mounted
    /\ Len(messages) >= 2
    /\ messages[1].text = "has joined the chat"
    /\ messages[2].username = "bob"

====
